---- MODULE Spec2Model ----
(***************************************************************************)
(* Orbital transfer via trajectory optimization                            *)
(* (src/hws/10.2_orbital_transfer.py).                                     *)
(*                                                                         *)
(* The script builds a 2D universe (rocket, Earth, Mars, asteroids),       *)
(* assembles a MathematicalProgram statement by statement, hands it to the *)
(* solver once, asserts success and reads the solution back.               *)
(*                                                                         *)
(* Number system.  The script works in floating point; the model works on  *)
(* an integer grid.  Quotients truncate toward zero (Quot), a Euclidean    *)
(* norm is kept as its exact square (Norm) and compared exactly, and the   *)
(* time interval .5 is the rational <<1, 2>>.  The catalogue (masses,      *)
(* positions, orbit radii, limits) is a small-integer instance given in    *)
(* the scaled units the constructors store; unit_converter is outside the  *)
(* modelled core.  The instance keeps the relations of the script's data:  *)
(* Earth heavier than Mars, Earth's orbit wider than Mars's, both circular *)
(* orbit speeds below the rocket's velocity limit, Mars at the origin and  *)
(* Earth on the positive x axis, asteroid masses of either sign.           *)
(***************************************************************************)
EXTENDS Integers, Sequences, FiniteSets, TLC

\* ------------------------------------------------------------------------
\* Bounds of the model
\* ------------------------------------------------------------------------

\* time_steps ranges over 1..MaxTimeSteps (the script sets 100)
MaxTimeSteps == 2

\* n_asteroids ranges over 0..MaxAsteroids (the script sets 10)
MaxAsteroids == 2

\* ------------------------------------------------------------------------
\* Arithmetic helpers
\* ------------------------------------------------------------------------

Abs(a) == IF a < 0 THEN -a ELSE a

\* float division on the grid: quotient truncated toward zero
Quot(a, b) ==
    IF (a >= 0) = (b > 0) THEN Abs(a) \div Abs(b) ELSE -(Abs(a) \div Abs(b))

\* largest r with r * r <= n  (x ** .5 on the grid)
ISqrt(n) == CHOOSE r \in 0..n : r * r <= n /\ (r + 1) * (r + 1) > n

\* numpy: a.dot(b) / np.dot(a, b) for vectors of equal length
Dot(a, b) ==
    LET RECURSIVE S(_)
        S(i) == IF i = 0 THEN 0 ELSE a[i] * b[i] + S(i - 1)
    IN  S(Len(a))

\* numpy: elementwise a + b, a - b, scalar * a
VAdd(a, b) == [i \in 1..Len(a) |-> a[i] + b[i]]
VSub(a, b) == [i \in 1..Len(a) |-> a[i] - b[i]]
VScale(k, a) == [i \in 1..Len(a) |-> k * a[i]]

\* numpy: state[:2] and state[2:] of a 4-vector
Head2(s) == <<s[1], s[2]>>
Tail2(s) == <<s[3], s[4]>>

\* np.linalg.norm(v): the norm, kept exactly as its square
Norm(v) == [sq |-> Dot(v, v)]

\* norm <= b and norm >= b, exact
NormLeq(n, b) == b >= 0 /\ n.sq <= b * b
NormGeq(n, b) == b <= 0 \/ n.sq >= b * b

\* Python sequence indexing with negative indices: seq[i] on length n,
\* as a 0-based index
PyIndex(i, n) == IF i < 0 THEN n + i ELSE i

\* range(n) as a sequence 0, 1, .., n-1
Range(n) == [i \in 1..(IF n > 0 THEN n ELSE 0) |-> i - 1]

\* sum of a sequence of integers
RECURSIVE SumSeq(_)
SumSeq(s) == IF Len(s) = 0 THEN 0 ELSE Head(s) + SumSeq(Tail(s))

\* concatenation of a sequence of sequences, in order
RECURSIVE Flatten(_)
Flatten(ss) == IF Len(ss) = 0 THEN <<>> ELSE Head(ss) \o Flatten(Tail(ss))

\* rationals <<num, den>> with den > 0
RatMulInt(q, k) == <<q[1] * k, q[2]>>
RatAdd(p, q) == <<p[1] * q[2] + q[1] * p[2], p[2] * q[2]>>
RECURSIVE Gcd(_, _)
Gcd(a, b) == IF b = 0 THEN a ELSE Gcd(b, a % b)
RatNorm(p) ==
    LET g == Gcd(Abs(p[1]), p[2])
    IN  <<Quot(p[1], g), p[2] \div g>>
RatEq(p, q) == RatNorm(p) = RatNorm(q)
RatZero == <<0, 1>>
RatSub(p, q) == <<p[1] * q[2] - q[1] * p[2], p[2] * q[2]>>

\* ------------------------------------------------------------------------
\* Rocket, Planet, Universe
\* ------------------------------------------------------------------------

\* Rocket.__init__: stores mass, thrust_limit, velocity_limit, unchecked
Rocket(mass, thrust_limit, velocity_limit) ==
    [mass |-> mass, thrust_limit |-> thrust_limit,
     velocity_limit |-> velocity_limit]

\* np.nan, the default radius of a Planet: a value no radius takes
NaN == -1

\* Planet.__init__: stores name, mass, position, orbit, unchecked; the
\* optional radius is np.nan unless given
Planet(name, mass, position, orbit) ==
    [name |-> name, mass |-> mass, position |-> position, orbit |-> orbit,
     radius |-> NaN]

\* rocket = Rocket(5.49e5, .25, 170)
rocket0 == Rocket(2, 8, 5)

\* earth = Planet('Earth', ...): the departure body
earth == [Planet("Earth", 32, <<4, 0>>, 2) EXCEPT !.radius = 2]

\* mars = Planet('Mars', ...): the origin of the 2D universe
mars == [Planet("Mars", 4, <<0, 0>>, 1) EXCEPT !.radius = 1]

\* variant: the asteroids all carry the same name
AsteroidName_NoIndex(i) == "Asteroid"

\* f'Asteroid_{i}'
AsteroidName(i) ==
    CASE i = 0 -> "Asteroid_0"
      [] i = 1 -> "Asteroid_1"
      [] i = 2 -> "Asteroid_2"
      [] OTHER -> "Asteroid_3"

\* the outcomes of the three random draws of one asteroid:
\* mass = randn() * 5e22 (either sign), position = randn(2) * 5e10 + offset,
\* orbit = abs(randn()) * 1e10 (never negative)
AsteroidDraws ==
    { [mass |-> 1,  position |-> <<2, 2>>,  orbit |-> 1],
      [mass |-> -1, position |-> <<3, -2>>, orbit |-> 1],
      [mass |-> 1,  position |-> <<1, -2>>, orbit |-> 2] }

\* the loop that appends n_asteroids instances of Planet to asteroids
MakeAsteroids(draws) ==
    [i \in 1..Len(draws) |->
        Planet(AsteroidName(i - 1), draws[i].mass, draws[i].position,
               draws[i].orbit)]

\* gravitational constant in the scaled units
G == 1

\* Universe.__init__
Universe(rkt, pls) == [rocket |-> rkt, planets |-> pls, G |-> G]

\* the value a method returns when it falls off its end or evaluates at None
None == Planet("None", 0, <<0, 0>>, 0)

\* Universe.get_planet: the first planet carrying the name, else None
get_planet(U, name) ==
    LET hits == {i \in 1..Len(U.planets) : U.planets[i].name = name}
    IN  IF hits = {} THEN None
        ELSE U.planets[CHOOSE i \in hits : \A j \in hits : i <= j]

\* Universe.get_planet: what it prints, nothing when a planet carries the
\* name and name + ' is not in the Universe!' when none does
get_planet_prints(U, name) ==
    IF \E i \in 1..Len(U.planets) : U.planets[i].name = name THEN <<>>
    ELSE <<[name |-> name, text |-> " is not in the Universe!"]>>

\* Universe.position_wrt_planet
position_wrt_planet(U, state, name) ==
    VSub(Head2(state), get_planet(U, name).position)

\* variant: the pull of every body of the universe, whatever the name
acceleration_from_planet_All(U, state, name) ==
    LET p(i) == VSub(Head2(state), U.planets[i].position)
        d(i) == ISqrt(Dot(p(i), p(i)))
        RECURSIVE Sum(_)
        Sum(i) == IF i = 0 THEN <<0, 0>>
                  ELSE VAdd(Sum(i - 1),
                            VScale(Quot(-(U.G * U.planets[i].mass),
                                        d(i) * d(i) * d(i)), p(i)))
    IN  Sum(Len(U.planets))

\* Universe.acceleration_from_planet
acceleration_from_planet(U, state, name) ==
    LET p == position_wrt_planet(U, state, name)
        d == ISqrt(Dot(p, p))
        planet == get_planet(U, name)
    IN  VScale(Quot(-(U.G * planet.mass), d * d * d), p)

\* variant: the last planet of the list is left out of the sum
rocket_continuous_dynamics_SkipLast(U, state, thrust) ==
    LET a0 == <<Quot(thrust[1], U.rocket.mass), Quot(thrust[2], U.rocket.mass)>>
        RECURSIVE Acc(_)
        Acc(i) == IF i = 0 THEN a0
                  ELSE VAdd(Acc(i - 1),
                            acceleration_from_planet(U, state, U.planets[i].name))
        a == Acc(Len(U.planets) - 1)
    IN  Tail2(state) \o a

\* Universe.rocket_continuous_dynamics
rocket_continuous_dynamics(U, state, thrust) ==
    LET a0 == <<Quot(thrust[1], U.rocket.mass), Quot(thrust[2], U.rocket.mass)>>
        RECURSIVE Acc(_)
        Acc(i) == IF i = 0 THEN a0
                  ELSE VAdd(Acc(i - 1),
                            acceleration_from_planet(U, state, U.planets[i].name))
        a == Acc(Len(U.planets))
    IN  Tail2(state) \o a

\* variant: explicit Euler, the dynamics evaluated at the current state
rocket_discrete_dynamics_Explicit(U, state, state_next, thrust, time_step) ==
    LET state_dot == rocket_continuous_dynamics(U, state, thrust)
    IN  VSub(VScale(time_step[2], VSub(state_next, state)),
             VScale(time_step[1], state_dot))

\* Universe.rocket_discrete_dynamics; time_step is the rational <<n, d>> and
\* the residual is returned multiplied by d (zero exactly when the script's
\* residual is zero)
rocket_discrete_dynamics(U, state, state_next, thrust, time_step) ==
    LET state_dot == rocket_continuous_dynamics(U, state_next, thrust)
    IN  VSub(VScale(time_step[2], VSub(state_next, state)),
             VScale(time_step[1], state_dot))

\* variant: the radial acceleration residual with the wrong sign
constraint_state_to_orbit_SignSlip(U, state, planet_name) ==
    LET planet == get_planet(U, planet_name)
        p == VSub(Head2(state), planet.position)
        v == Tail2(state)
        residual_p == Dot(p, p) - planet.orbit * planet.orbit
        residual_v == Dot(p, v)
        a == acceleration_from_planet(U, state, planet_name)
        residual_a == Dot(p, a) - Dot(v, v)
    IN  <<residual_p, residual_v, residual_a>>

\* Universe.constraint_state_to_orbit
constraint_state_to_orbit(U, state, planet_name) ==
    LET planet == get_planet(U, planet_name)
        p == VSub(Head2(state), planet.position)
        v == Tail2(state)
        residual_p == Dot(p, p) - planet.orbit * planet.orbit
        residual_v == Dot(p, v)
        a == acceleration_from_planet(U, state, planet_name)
        residual_a == Dot(p, a) + Dot(v, v)
    IN  <<residual_p, residual_v, residual_a>>

\* Universe.gravity_on_planet_surface: what the call prints (the message of
\* get_planet included) and the gravity g it computes, <<>> when it returns
\* before computing; g is left in the scaled units
gravity_on_planet_surface(U, name) ==
    LET planet == get_planet(U, name)
        lookup == get_planet_prints(U, name)
    IN  IF planet # None
        THEN IF planet.radius = NaN
             THEN [printed |-> lookup \o
                      <<[name |-> name, text |-> " has unknown radius."]>>,
                   g |-> <<>>]
             ELSE [printed |-> lookup \o
                      <<[name |-> name, text |-> "Gravity acceleration on"]>>,
                   g |-> <<Quot(U.G * planet.mass, planet.radius * planet.radius)>>]
        ELSE [printed |-> lookup, g |-> <<>>]

\* variant: a method works in place on the position of the planets
self_after_call_InPlace(U) ==
    [U EXCEPT !.planets =
        [i \in 1..Len(U.planets) |-> [U.planets[i] EXCEPT !.position = <<0, 0>>]]]

\* the Universe instance once one of its methods has returned: the methods
\* assign to no attribute of self, of self.rocket or of a planet, and build
\* new arrays for everything they compute
self_after_call(U) == U

\* ------------------------------------------------------------------------
\* The script's state
\* ------------------------------------------------------------------------

VARIABLES
    pc,           \* the statement the script executes next
    time_steps,   \* numeric parameter time_steps
    rocket,       \* the Rocket instance
    asteroids,    \* the list asteroids
    universe,     \* the Universe instance (rocket, planets, G)
    np_random,    \* numpy's global generator: last seed, draws since
    prog,         \* the MathematicalProgram
    state,        \* the array of state decision variables
    thrust,       \* the array of thrust decision variables
    state_guess,  \* the array returned by interpolate_rocket_state
    solve_calls,  \* number of calls of solver.Solve
    result,       \* the MathematicalProgramResult
    get_calls,    \* number of calls of result.GetSolution
    thrust_opt,   \* retrieved optimal thrust
    state_opt,    \* retrieved optimal state
    printed,      \* the fuel consumptions printed so far
    call,         \* the last direct call of a function: arguments, return
    guess_log     \* the last two calls of interpolate_rocket_state

vars == <<pc, time_steps, rocket, asteroids, universe, np_random, prog, state,
          thrust, state_guess, solve_calls, result, get_calls, thrust_opt,
          state_opt, printed, call, guess_log>>

\* time_interval = .5 (in years)
time_interval == <<1, 2>>

\* a name not yet bound to an array of decision variables
NoArray == [name |-> "", rows |-> 0, cols |-> 0]

\* MathematicalProgram(): no variables, constraints, costs or guesses
MathematicalProgram ==
    [decision_variables |-> <<>>, constraints |-> <<>>, costs |-> <<>>,
     initial_guess |-> <<>>]

\* prog.NewContinuousVariables(rows, cols, name): the new array
NewContinuousVariables(rows, cols, name) ==
    [name |-> name, rows |-> IF rows > 0 THEN rows ELSE 0, cols |-> cols]

\* the symbolic element state[i] / thrust[i] of an array of `rows` rows,
\* as the 0-based row it denotes
Row(arr, i) == PyIndex(i, arr.rows)

\* a constraint of the program: which expression, over which rows, which
\* relation and which bound
Constraint(kind, t, name, comp, rel, bound) ==
    [kind |-> kind, t |-> t, name |-> name, comp |-> comp, rel |-> rel,
     bound |-> bound, time_step |-> time_interval]

\* for residual in universe.constraint_state_to_orbit(state[i], name):
\*     prog.AddConstraint(residual == 0)
OrbitConstraints(st, i, name) ==
    [k \in 1..3 |-> Constraint("orbit", Row(st, i), name, k, "==", 0)]

\* variant: the loop stops one step early
DynamicsRange_Short(T) == Range(T - 1)

\* discretized dynamics: for t in range(time_steps)
DynamicsRange(T) == Range(T)

\* for t in range(time_steps): for residual in rocket_discrete_dynamics(
\*     state[t], state[t+1], thrust[t], time_interval):
\*         prog.AddConstraint(residual == 0)
DynamicsConstraints(T) ==
    Flatten([i \in 1..Len(DynamicsRange(T)) |->
        [k \in 1..4 |->
            Constraint("dynamics", DynamicsRange(T)[i], "", k, "==", 0)]])

\* variant: the last thrust is left out of the loop
ThrustRange_Short(T) == Range(T - 1)

\* thrust limits: for t in range(time_steps)
ThrustRange(T) == Range(T)

\* variant: the limit is not squared
ThrustConstraints_Unsquared(T, rkt) ==
    [i \in 1..Len(ThrustRange(T)) |->
        Constraint("thrust_dot", ThrustRange(T)[i], "", 1, "<=",
                   rkt.thrust_limit)]

\* thrust limits: np.dot(thrust[t], thrust[t]) <= rocket.thrust_limit**2
ThrustConstraints(T, rkt) ==
    [i \in 1..Len(ThrustRange(T)) |->
        Constraint("thrust_dot", ThrustRange(T)[i], "", 1, "<=",
                   rkt.thrust_limit * rkt.thrust_limit)]

\* velocity limits: for t in range(time_steps)
VelocityRange(T) == Range(T)

\* velocity limits: np.linalg.norm(state[t][2:]) <= rocket.velocity_limit
VelocityConstraints(T, rkt) ==
    [i \in 1..Len(VelocityRange(T)) |->
        Constraint("velocity_norm", VelocityRange(T)[i], "", 1, "<=",
                   rkt.velocity_limit)]

\* variant: the last state is left out of the loop
KeepOutRange_Short(T) == Range(T)

\* asteroid avoidance: for t in range(time_steps+1)
KeepOutRange(T) == Range(T + 1)

\* for t in range(time_steps+1): for asteroid in asteroids:
\*   np.linalg.norm(position_wrt_planet(state[t], asteroid.name))
\*       >= asteroid.orbit
KeepOutConstraints(T, asts) ==
    Flatten([i \in 1..Len(KeepOutRange(T)) |->
        [j \in 1..Len(asts) |->
            Constraint("keepout_norm", KeepOutRange(T)[i], asts[j].name, 1,
                       ">=", asts[j].orbit)]])

\* minimize fuel consumption: for t in range(time_steps)
CostRange(T) == Range(T)

\* variant: the time interval is left out of the terms
CostExpression_NoInterval(T) ==
    [i \in 1..Len(CostRange(T)) |->
        [coef |-> <<1, 1>>, t |-> CostRange(T)[i]]]

\* cost = 0; for t in range(time_steps):
\*     cost += time_interval * np.dot(thrust[t], thrust[t])
\* the expression is kept as its sequence of terms
CostExpression(T) ==
    [i \in 1..Len(CostRange(T)) |->
        [coef |-> time_interval, t |-> CostRange(T)[i]]]

\* ------------------------------------------------------------------------
\* Evaluation of the program on values of the decision variables
\* ------------------------------------------------------------------------

\* an assignment x gives a 4-vector to every row of state and a 2-vector to
\* every row of thrust: x.state[t + 1] is the value of state[t]

\* the rocket sits on the centre of the named planet (d = 0: the float
\* residual is nan there, and no comparison with nan holds)
AtCentre(U, s, name) == position_wrt_planet(U, s, name) = <<0, 0>>
AtSomeCentre(U, s) ==
    \E i \in 1..Len(U.planets) : AtCentre(U, s, U.planets[i].name)

\* lhs rel rhs for the three relations the script uses
Compare(lhs, rel, rhs) ==
    CASE rel = "==" -> lhs = rhs
      [] rel = "<=" -> lhs <= rhs
      [] rel = ">=" -> lhs >= rhs

\* the same for a norm on the left
CompareNorm(n, rel, rhs) ==
    CASE rel = "<=" -> NormLeq(n, rhs)
      [] rel = ">=" -> NormGeq(n, rhs)
      [] rel = "==" -> rhs >= 0 /\ n.sq = rhs * rhs

\* constraint c holds for the assignment x
Holds(U, c, x) ==
    CASE c.kind = "orbit" ->
            /\ ~AtCentre(U, x.state[c.t + 1], c.name)
            /\ Compare(constraint_state_to_orbit(U, x.state[c.t + 1],
                                                 c.name)[c.comp],
                       c.rel, c.bound)
      [] c.kind = "dynamics" ->
            /\ ~AtSomeCentre(U, x.state[c.t + 2])
            /\ Compare(rocket_discrete_dynamics(U, x.state[c.t + 1],
                           x.state[c.t + 2], x.thrust[c.t + 1],
                           c.time_step)[c.comp],
                       c.rel, c.bound)
      [] c.kind = "thrust_dot" ->
            Compare(Dot(x.thrust[c.t + 1], x.thrust[c.t + 1]), c.rel, c.bound)
      [] c.kind = "velocity_norm" ->
            CompareNorm(Norm(Tail2(x.state[c.t + 1])), c.rel, c.bound)
      [] c.kind = "keepout_norm" ->
            CompareNorm(Norm(position_wrt_planet(U, x.state[c.t + 1], c.name)),
                        c.rel, c.bound)

\* x satisfies every constraint added to the program
Satisfies(U, P, x) ==
    \A i \in 1..Len(P.constraints) : Holds(U, P.constraints[i], x)

\* value of a cost expression (a sequence of terms coef * thrust[t].thrust[t])
\* on a thrust sequence, as a rational
RECURSIVE EvalCost(_, _)
EvalCost(expr, th) ==
    IF Len(expr) = 0 THEN RatZero
    ELSE RatAdd(RatMulInt(Head(expr).coef,
                          Dot(th[Head(expr).t + 1], th[Head(expr).t + 1])),
                EvalCost(Tail(expr), th))

\* fuel_consumption(thrust, time_interval)
fuel_consumption(th, ti) ==
    RatMulInt(ti, SumSeq([i \in 1..Len(th) |-> Dot(th[i], th[i])]))

\* ------------------------------------------------------------------------
\* The solver
\* ------------------------------------------------------------------------

\* values a position, a velocity and a thrust may take in a reported iterate
PosGrid == {<<2, 0>>, <<1, 1>>, <<1, -1>>, <<0, 1>>, <<0, -1>>, <<1, 0>>}
VelGrid == {<<0, 4>>, <<0, -4>>, <<-2, 2>>, <<-2, -2>>, <<-2, 0>>,
            <<0, -2>>, <<0, 6>>}
ThrustGrid == {<<0, 0>>, <<-6, -2>>, <<-6, 2>>, <<-8, 0>>, <<10, -16>>}
StateGrid == {p \o v : p \in PosGrid, v \in VelGrid}

\* the stage at which every variable of c has a value, when rows are given
\* values in the order state[0], thrust[0], state[1], thrust[1], ...
StageOf(c) == IF c.kind \in {"dynamics", "thrust_dot"} THEN c.t + 1 ELSE c.t

StageHolds(U, P, x, k) ==
    \A i \in 1..Len(P.constraints) :
        StageOf(P.constraints[i]) = k => Holds(U, P.constraints[i], x)

\* the assignments of the first k + 1 state rows and k thrust rows that
\* satisfy every constraint over those rows
RECURSIVE Partial(_, _, _, _, _)
Partial(U, P, nS, nU, k) ==
    IF k = 0
    THEN {x \in {[state |-> <<s>>, thrust |-> <<>>] : s \in StateGrid} :
            StageHolds(U, P, x, 0)}
    ELSE LET prev == Partial(U, P, nS, nU, k - 1)
             ext == UNION {
                 {[state  |-> IF k < nS THEN Append(x.state, s) ELSE x.state,
                   thrust |-> IF k <= nU THEN Append(x.thrust, u) ELSE x.thrust] :
                     s \in (IF k < nS THEN StateGrid ELSE {<<>>}),
                     u \in (IF k <= nU THEN ThrustGrid ELSE {<<>>})} :
                 x \in prev}
         IN  {x \in ext : StageHolds(U, P, x, k)}

\* every assignment on the grid that satisfies every constraint of the
\* program: the points the solver may report as a solution
Feasible(U, P, st, th) ==
    IF st.rows = 0 THEN {}
    ELSE Partial(U, P, st.rows, th.rows,
                 IF st.rows - 1 > th.rows THEN st.rows - 1 ELSE th.rows)

\* the iterates a failed solve may leave in the result
FailedIterates(st, th) ==
    {[state |-> [i \in 1..st.rows |-> s], thrust |-> [i \in 1..th.rows |-> u]] :
        s \in {p \o <<0, 0>> : p \in PosGrid}, u \in {<<0, 0>>}}

\* ------------------------------------------------------------------------
\* Initial guess
\* ------------------------------------------------------------------------

\* variant: the seed is not reset, the stream goes on where it was
Seed_Ignored(gen, n) == gen

\* np.random.seed(n) on the generator gen: the stream of n restarts
Seed(gen, n) == [seed |-> n, pos |-> 0]

\* the resolution of the tables below: np.random.rand() in thousandths
RandDen == 1000

\* the first numbers np.random.rand() returns after seed(1), in
\* thousandths rounded up (0.417022, 0.720324, 0.000114, 0.302333, ...);
\* none of them is zero
RandSeed1 ==
    <<418, 721, 1, 303, 147, 93, 187, 346, 397, 539, 420, 686, 205, 879, 28,
      671, 418, 559, 141, 199, 801, 969, 314, 693, 877, 895, 86, 40, 170,
      879, 99, 422, 958, 534, 692, 316, 687, 835, 19, 751, 989, 749, 281,
      790, 104, 448, 909, 294, 288, 131, 20, 679, 212, 266, 492, 54, 575,
      147, 590, 700, 103, 415, 695, 415>>

\* the same after seed(0), the seed of the asteroid loop
RandSeed0 ==
    <<549, 716, 603, 545, 424, 646, 438, 892, 964, 384, 792, 529, 569, 926,
      72, 88, 21, 833, 779, 871, 979, 800, 462, 781, 119, 640, 144, 945,
      522, 415, 265, 775, 457, 569, 19, 618, 613, 617, 944, 682, 360, 438,
      698, 61, 667, 671, 211, 129, 316, 364, 571, 439, 989, 103, 209, 162,
      654, 254, 467, 245, 159, 111, 657, 139>>

\* the k-th number (0-based) np.random.rand() returns after seed(n), as a
\* numerator over RandDen
RandStream(n, k) ==
    IF n = 0 THEN RandSeed0[(k % Len(RandSeed0)) + 1]
    ELSE RandSeed1[(k % Len(RandSeed1)) + 1]

\* variant: the fraction of the segment is the time itself
FirstOrderHold_Unscaled(x0, x1, t1, t) == <<x0 * t[2] + t[1] * (x1 - x0), t[2]>>

\* PiecewisePolynomial.FirstOrderHold([t0, t1], [x0, x1]).value(t), times as
\* rationals t0 = 0, t1, t; the result is a rational
FirstOrderHold(x0, x1, t1, t) ==
    LET fn == t[1] * t1[2]
        fd == t[2] * t1[1]
    IN  <<x0 * fd + fn * (x1 - x0), fd>>

\* variant: the time grid is sampled without its last point
GuessRange_Short(T) == Range(T)

\* the rows sampled by interpolate_rocket_state: range(time_steps + 1)
GuessRange(T) == Range(T + 1)

\* variant: no noise is added
Perturb_None(value, r) == value

\* state_guess += np.random.rand(*state_guess.shape) * 1e-3, one entry:
\* r is the numerator of rand() over RandDen
Perturb(value, r) == RatAdd(value, <<r, RandDen * 1000>>)

\* the columns of state_guess that receive noise: all four
NoisyColumns == {1, 2, 3, 4}

\* interpolate_rocket_state(p_initial, p_final, time_steps), which also
\* reads the global time_interval (ti) and the global generator (gen0): the
\* array state_guess (rows of 4 rationals) and the generator after the call
interpolate_rocket_state(p_initial, p_final, T, ti, gen0) ==
    LET gen == Seed(gen0, 1)
        time_limit == RatMulInt(ti, T)
        state_limits == <<<<p_initial[1], p_final[1]>>,
                          <<p_initial[2], p_final[2]>>,
                          <<0, 0>>, <<0, 0>>>>
        rows == GuessRange(T)
        value(t, c) == FirstOrderHold(state_limits[c][1], state_limits[c][2],
                                      time_limit, RatMulInt(ti, t))
        rand(r, c) == RandStream(gen.seed, gen.pos + (r - 1) * 4 + (c - 1))
    IN  [state_guess |->
            [r \in 1..Len(rows) |->
                [c \in 1..4 |->
                    IF c \in NoisyColumns
                    THEN Perturb(value(rows[r], c), rand(r, c))
                    ELSE value(rows[r], c)]],
         np_random |-> [seed |-> gen.seed, pos |-> gen.pos + Len(rows) * 4]]

\* ------------------------------------------------------------------------
\* The script, statement by statement
\* ------------------------------------------------------------------------

NoResult == [is_success |-> FALSE,
             x |-> [state |-> <<>>, thrust |-> <<>>]]

\* state after the universe is instantiated and the numeric parameters are
\* set: rocket, Earth, Mars, n_asteroids random asteroids (drawn after
\* np.random.seed(0), four numbers each), planets = [earth, mars] + asteroids
\* variant: the solver runs before the cost is added
PcOrder_SolveBeforeCost ==
    <<"new_prog", "declare", "initial_orbit", "terminal_orbit", "dynamics",
      "initial_guess", "thrust_limits", "velocity_limits", "keepout", "solve",
      "cost", "assert", "get_thrust", "get_state", "print_fuel", "done">>

\* the statements of the script in execution order
PcOrder ==
    <<"new_prog", "declare", "initial_orbit", "terminal_orbit", "dynamics",
      "initial_guess", "thrust_limits", "velocity_limits", "keepout", "cost",
      "solve", "assert", "get_thrust", "get_state", "print_fuel", "done">>

\* variant: the script solves again once the solution is retrieved
Successor_Resolve(l) ==
    LET i == CHOOSE j \in 1..Len(PcOrder) : PcOrder[j] = l
    IN  IF l = "get_state" THEN "solve" ELSE PcOrder[i + 1]

\* the statement executed after the statement labelled l
Successor(l) ==
    LET i == CHOOSE j \in 1..Len(PcOrder) : PcOrder[j] = l
    IN  PcOrder[i + 1]

\* no method call has been recorded
NoCall ==
    [method |-> "none", U |-> <<>>, state |-> <<>>, state_next |-> <<>>,
     thrust |-> <<>>, name |-> "", time_step |-> <<0, 1>>, ret |-> <<>>,
     state_after |-> <<>>, thrust_after |-> <<>>, divided |-> FALSE,
     printed |-> <<>>]

Init ==
    /\ pc = "new_prog"
    /\ time_steps \in 1..MaxTimeSteps
    /\ rocket = rocket0
    /\ \E n \in 0..MaxAsteroids : \E draws \in [1..n -> AsteroidDraws] :
          /\ asteroids = MakeAsteroids(draws)
          /\ np_random = [seed |-> 0, pos |-> 4 * n]
    /\ universe = Universe(rocket, <<earth, mars>> \o asteroids)
    /\ prog = MathematicalProgram
    /\ state = NoArray
    /\ thrust = NoArray
    /\ state_guess = <<>>
    /\ solve_calls = 0
    /\ result = NoResult
    /\ get_calls = 0
    /\ thrust_opt = <<>>
    /\ state_opt = <<>>
    /\ printed = <<>>
    /\ call = NoCall
    /\ guess_log = <<>>

\* prog = MathematicalProgram()
NewProgram ==
    /\ pc = "new_prog"
    /\ prog' = MathematicalProgram
    /\ pc' = Successor(pc)
    /\ UNCHANGED <<time_steps, rocket, asteroids, universe, np_random, state,
                   thrust, state_guess, solve_calls, result, get_calls,
                   thrust_opt, state_opt, printed,
                   call, guess_log>>

\* state = prog.NewContinuousVariables(time_steps + 1, 4, 'state')
\* thrust = prog.NewContinuousVariables(time_steps, 2, 'thrust')
StateShape(T) == <<T + 1, 4>>
ThrustShape(T) == <<T, 2>>
DeclareVariables ==
    /\ pc = "declare"
    /\ state' = NewContinuousVariables(StateShape(time_steps)[1],
                                       StateShape(time_steps)[2], "state")
    /\ thrust' = NewContinuousVariables(ThrustShape(time_steps)[1],
                                        ThrustShape(time_steps)[2], "thrust")
    /\ prog' = [prog EXCEPT !.decision_variables = @ \o <<state', thrust'>>]
    /\ pc' = Successor(pc)
    /\ UNCHANGED <<time_steps, rocket, asteroids, universe, np_random,
                   state_guess, solve_calls, result, get_calls, thrust_opt,
                   state_opt, printed,
                   call, guess_log>>

\* variant: a constraint already in the program is replaced, not added again
AddConstraints_Replace(P, cs) ==
    LET old == SelectSeq(P.constraints,
                         LAMBDA c : \A i \in 1..Len(cs) : cs[i] # c)
    IN  [P EXCEPT !.constraints = old \o cs]

\* prog.AddConstraint for each element of a sequence of constraints
AddConstraints(P, cs) == [P EXCEPT !.constraints = @ \o cs]

\* initial orbit constraints: state[0] on the orbit of 'Earth'
InitialOrbit(st) == OrbitConstraints(st, 0, "Earth")
AddInitialOrbit ==
    /\ pc = "initial_orbit"
    /\ prog' = AddConstraints(prog, InitialOrbit(state))
    /\ pc' = Successor(pc)
    /\ universe' = self_after_call(universe)
    /\ UNCHANGED <<time_steps, rocket, asteroids, np_random, state,
                   thrust, state_guess, solve_calls, result, get_calls,
                   thrust_opt, state_opt, printed,
                   call, guess_log>>

\* variant: the orbit of Mars is imposed on the state before the last
TerminalOrbit_Penultimate(st) == OrbitConstraints(st, -2, "Mars")

\* terminal orbit constraints: state[-1] on the orbit of 'Mars'
TerminalOrbit(st) == OrbitConstraints(st, -1, "Mars")
AddTerminalOrbit ==
    /\ pc = "terminal_orbit"
    /\ prog' = AddConstraints(prog, TerminalOrbit(state))
    /\ pc' = Successor(pc)
    /\ universe' = self_after_call(universe)
    /\ UNCHANGED <<time_steps, rocket, asteroids, np_random, state,
                   thrust, state_guess, solve_calls, result, get_calls,
                   thrust_opt, state_opt, printed,
                   call, guess_log>>

\* discretized dynamics
AddDynamics ==
    /\ pc = "dynamics"
    /\ prog' = AddConstraints(prog, DynamicsConstraints(time_steps))
    /\ pc' = Successor(pc)
    /\ universe' = self_after_call(universe)
    /\ UNCHANGED <<time_steps, rocket, asteroids, np_random, state,
                   thrust, state_guess, solve_calls, result, get_calls,
                   thrust_opt, state_opt, printed,
                   call, guess_log>>

\* variant: the thrust receives a guess of zeros as well
GuessEntries_WithThrust(st, th, guess) ==
    <<[var |-> st.name, value |-> guess],
      [var |-> th.name, value |-> [i \in 1..th.rows |-> <<<<0, 1>>, <<0, 1>>>>]]>>

\* the calls of prog.SetInitialGuess the script makes: one, for state
GuessEntries(st, th, guess) == <<[var |-> st.name, value |-> guess]>>

\* state_guess = interpolate_rocket_state(Earth position, Mars position,
\*     time_steps); prog.SetInitialGuess(state, state_guess)
SetInitialGuess ==
    /\ pc = "initial_guess"
    /\ LET r == interpolate_rocket_state(
                    get_planet(universe, "Earth").position,
                    get_planet(universe, "Mars").position, time_steps,
                    time_interval, np_random)
       IN  /\ state_guess' = r.state_guess
           /\ np_random' = r.np_random
           /\ prog' = [prog EXCEPT !.initial_guess =
                          @ \o GuessEntries(state, thrust, r.state_guess)]
    /\ pc' = Successor(pc)
    /\ UNCHANGED <<time_steps, rocket, asteroids, universe, state, thrust,
                   solve_calls, result, get_calls, thrust_opt, state_opt,
                   printed,
                   call, guess_log>>

\* thrust limits
AddThrustLimits ==
    /\ pc = "thrust_limits"
    /\ prog' = AddConstraints(prog, ThrustConstraints(time_steps, rocket))
    /\ pc' = Successor(pc)
    /\ UNCHANGED <<time_steps, rocket, asteroids, universe, np_random, state,
                   thrust, state_guess, solve_calls, result, get_calls,
                   thrust_opt, state_opt, printed,
                   call, guess_log>>

\* velocity limits
AddVelocityLimits ==
    /\ pc = "velocity_limits"
    /\ prog' = AddConstraints(prog, VelocityConstraints(time_steps, rocket))
    /\ pc' = Successor(pc)
    /\ UNCHANGED <<time_steps, rocket, asteroids, universe, np_random, state,
                   thrust, state_guess, solve_calls, result, get_calls,
                   thrust_opt, state_opt, printed,
                   call, guess_log>>

\* avoid collision with asteroids
AddKeepOut ==
    /\ pc = "keepout"
    /\ prog' = AddConstraints(prog, KeepOutConstraints(time_steps, asteroids))
    /\ pc' = Successor(pc)
    /\ UNCHANGED <<time_steps, rocket, asteroids, universe, np_random, state,
                   thrust, state_guess, solve_calls, result, get_calls,
                   thrust_opt, state_opt, printed,
                   call, guess_log>>

\* minimize fuel consumption: prog.AddCost(cost)
AddCost ==
    /\ pc = "cost"
    /\ prog' = [prog EXCEPT !.costs = Append(@, CostExpression(time_steps))]
    /\ pc' = Successor(pc)
    /\ UNCHANGED <<time_steps, rocket, asteroids, universe, np_random, state,
                   thrust, state_guess, solve_calls, result, get_calls,
                   thrust_opt, state_opt, printed,
                   call, guess_log>>

\* solver = SnoptSolver(); result = solver.Solve(prog): the solver either
\* reports success with values that satisfy every constraint, or fails
Solve ==
    /\ pc = "solve"
    /\ solve_calls' = solve_calls + 1
    /\ \/ \E x \in Feasible(universe, prog, state, thrust) :
             result' = [is_success |-> TRUE, x |-> x]
       \/ \E x \in FailedIterates(state, thrust) :
             result' = [is_success |-> FALSE, x |-> x]
    /\ pc' = Successor(pc)
    /\ universe' = self_after_call(universe)
    /\ UNCHANGED <<time_steps, rocket, asteroids, np_random, prog,
                   state, thrust, state_guess, get_calls, thrust_opt,
                   state_opt, printed,
                   call, guess_log>>

\* variant: the assertion does not stop the script
AssertNext_Off(ok) == "get_thrust"

\* assert result.is_success(): where the script goes next
AssertNext(ok) == IF ok THEN "get_thrust" ELSE "AssertionError"
AssertSuccess ==
    /\ pc = "assert"
    /\ pc' = AssertNext(result.is_success)
    /\ UNCHANGED <<time_steps, rocket, asteroids, universe, np_random, prog,
                   state, thrust, state_guess, solve_calls, result, get_calls,
                   thrust_opt, state_opt, printed,
                   call, guess_log>>

\* variant: the result hands its values out once, later reads return zeros
GetSolution_Once(res, arr) ==
    IF get_calls >= 2
    THEN [i \in 1..arr.rows |-> [c \in 1..arr.cols |-> 0]]
    ELSE IF arr.name = "state" THEN [i \in 1..arr.rows |-> res.x.state[i]]
    ELSE [i \in 1..arr.rows |-> res.x.thrust[i]]

\* result.GetSolution(arr): the values of the rows of arr, in the array's shape
GetSolution(res, arr) ==
    IF arr.name = "state" THEN [i \in 1..arr.rows |-> res.x.state[i]]
    ELSE [i \in 1..arr.rows |-> res.x.thrust[i]]

\* thrust_opt = result.GetSolution(thrust)
GetThrust ==
    /\ pc = "get_thrust"
    /\ thrust_opt' = GetSolution(result, thrust)
    /\ get_calls' = get_calls + 1
    /\ pc' = Successor(pc)
    /\ UNCHANGED <<time_steps, rocket, asteroids, universe, np_random, prog,
                   state, thrust, state_guess, solve_calls, result, state_opt,
                   printed,
                   call, guess_log>>

\* state_opt = result.GetSolution(state)
GetState ==
    /\ pc = "get_state"
    /\ state_opt' = GetSolution(result, state)
    /\ get_calls' = get_calls + 1
    /\ pc' = Successor(pc)
    /\ UNCHANGED <<time_steps, rocket, asteroids, universe, np_random, prog,
                   state, thrust, state_guess, solve_calls, result, thrust_opt,
                   printed,
                   call, guess_log>>

\* print(f'Is fuel consumption {fuel_consumption(thrust_opt, time_interval)}
\*         lower than 200?')
PrintFuel ==
    /\ pc = "print_fuel"
    /\ printed' = Append(printed, fuel_consumption(thrust_opt, time_interval))
    /\ pc' = Successor(pc)
    /\ UNCHANGED <<time_steps, rocket, asteroids, universe, np_random, prog,
                   state, thrust, state_guess, solve_calls, result, get_calls,
                   thrust_opt, state_opt,
                   call, guess_log>>

Next ==
    \/ NewProgram
    \/ DeclareVariables
    \/ AddInitialOrbit
    \/ AddTerminalOrbit
    \/ AddDynamics
    \/ SetInitialGuess
    \/ AddThrustLimits
    \/ AddVelocityLimits
    \/ AddKeepOut
    \/ AddCost
    \/ Solve
    \/ AssertSuccess
    \/ GetThrust
    \/ GetState
    \/ PrintFuel

Spec == Init /\ [][Next]_vars

\* ------------------------------------------------------------------------
\* The script as a notebook: cells run again by hand
\* ------------------------------------------------------------------------

\* runs of the path-constraint/cost cell on one program, at most
MaxCellRuns == 2

\* runs of the retrieval statements on one solver result, at most
MaxExtractions == 2

\* the first statement of the initialisation cell, of the path-constraint
\* and cost cell, and of the retrieval part of the solve cell
InitCell == "new_prog"
ConstraintCell == "thrust_limits"
RetrievalCell == "get_thrust"

\* the constraint cell has ended and the initialisation cell is run again
RerunInitCell ==
    /\ pc = "solve"
    /\ pc' = InitCell
    /\ UNCHANGED <<time_steps, rocket, asteroids, universe, np_random, prog,
                   state, thrust, state_guess, solve_calls, result, get_calls,
                   thrust_opt, state_opt, printed, call, guess_log>>

\* the constraint cell has ended and is run again on the same program
RerunConstraintCell ==
    /\ pc = "solve"
    /\ Len(prog.costs) < MaxCellRuns
    /\ pc' = ConstraintCell
    /\ UNCHANGED <<time_steps, rocket, asteroids, universe, np_random, prog,
                   state, thrust, state_guess, solve_calls, result, get_calls,
                   thrust_opt, state_opt, printed, call, guess_log>>

\* the script has ended and the retrieval statements are run again on the
\* same result
RerunRetrieval ==
    /\ pc = "done"
    /\ get_calls < 2 * MaxExtractions
    /\ pc' = RetrievalCell
    /\ UNCHANGED <<time_steps, rocket, asteroids, universe, np_random, prog,
                   state, thrust, state_guess, solve_calls, result, get_calls,
                   thrust_opt, state_opt, printed, call, guess_log>>

NotebookNext ==
    \/ NewProgram
    \/ DeclareVariables
    \/ AddInitialOrbit
    \/ AddTerminalOrbit
    \/ AddDynamics
    \/ SetInitialGuess
    \/ AddThrustLimits
    \/ AddVelocityLimits
    \/ AddKeepOut
    \/ AddCost
    \/ Solve
    \/ AssertSuccess
    \/ GetThrust
    \/ GetState
    \/ PrintFuel
    \/ RerunInitCell
    \/ RerunConstraintCell
    \/ RerunRetrieval

NotebookSpec == Init /\ [][NotebookNext]_vars

\* ------------------------------------------------------------------------
\* The methods of Universe called directly on the script's universe
\* ------------------------------------------------------------------------

\* the time steps the discrete dynamics is called with: the script's
\* time_interval and one year
TimeStepGrid == {time_interval, <<1, 1>>}

\* the names of the planets of U
\* (each behaviour of MethodSpec records one call: the methods keep no state
\* between calls, so a call's outcome does not depend on earlier calls)
PlanetNames(U) == {U.planets[i].name : i \in 1..Len(U.planets)}

\* universe.rocket_continuous_dynamics(state, thrust)
CallContinuousDynamics ==
    /\ call = NoCall
    /\ \E s \in StateGrid, u \in ThrustGrid :
          call' = [NoCall EXCEPT
                      !.method = "rocket_continuous_dynamics",
                      !.U = universe, !.state = s, !.thrust = u,
                      !.ret = rocket_continuous_dynamics(universe, s, u),
                      !.state_after = s, !.thrust_after = u]
    /\ universe' = self_after_call(universe)
    /\ UNCHANGED <<pc, time_steps, rocket, asteroids, np_random,
                   prog, state, thrust, state_guess, solve_calls, result,
                   get_calls, thrust_opt, state_opt, printed, guess_log>>

\* universe.rocket_discrete_dynamics(state, state_next, thrust, time_step)
CallDiscreteDynamics ==
    /\ call = NoCall
    /\ \E s \in StateGrid, sn \in StateGrid, u \in ThrustGrid,
          h \in TimeStepGrid :
          call' = [NoCall EXCEPT
                      !.method = "rocket_discrete_dynamics",
                      !.U = universe, !.state = s, !.state_next = sn,
                      !.thrust = u, !.time_step = h,
                      !.ret = rocket_discrete_dynamics(universe, s, sn, u, h),
                      !.state_after = s, !.thrust_after = u]
    /\ universe' = self_after_call(universe)
    /\ UNCHANGED <<pc, time_steps, rocket, asteroids, np_random,
                   prog, state, thrust, state_guess, solve_calls, result,
                   get_calls, thrust_opt, state_opt, printed, guess_log>>

\* universe.constraint_state_to_orbit(state, planet_name)
CallStateToOrbit ==
    /\ call = NoCall
    /\ \E s \in StateGrid, name \in PlanetNames(universe) :
          call' = [NoCall EXCEPT
                      !.method = "constraint_state_to_orbit",
                      !.U = universe, !.state = s, !.name = name,
                      !.ret = constraint_state_to_orbit(universe, s, name),
                      !.state_after = s]
    /\ universe' = self_after_call(universe)
    /\ UNCHANGED <<pc, time_steps, rocket, asteroids, np_random,
                   prog, state, thrust, state_guess, solve_calls, result,
                   get_calls, thrust_opt, state_opt, printed, guess_log>>

\* the names the lookups are called with: the planets of the universe and
\* 'Jupiter', which is in no universe of the script
LookupNames(U) == PlanetNames(U) \cup {"Jupiter"}

\* universe.get_planet(name)
CallGetPlanet ==
    /\ call = NoCall
    /\ \E name \in LookupNames(universe) :
          call' = [NoCall EXCEPT
                      !.method = "get_planet",
                      !.U = universe, !.name = name,
                      !.ret = <<get_planet(universe, name)>>,
                      !.printed = get_planet_prints(universe, name)]
    /\ universe' = self_after_call(universe)
    /\ UNCHANGED <<pc, time_steps, rocket, asteroids, np_random,
                   prog, state, thrust, state_guess, solve_calls, result,
                   get_calls, thrust_opt, state_opt, printed, guess_log>>

\* universe.gravity_on_planet_surface(name)
CallGravityOnPlanetSurface ==
    /\ call = NoCall
    /\ \E name \in LookupNames(universe) :
          LET r == gravity_on_planet_surface(universe, name)
          IN  call' = [NoCall EXCEPT
                          !.method = "gravity_on_planet_surface",
                          !.U = universe, !.name = name,
                          !.ret = r.g,
                          !.printed = r.printed]
    /\ universe' = self_after_call(universe)
    /\ UNCHANGED <<pc, time_steps, rocket, asteroids, np_random,
                   prog, state, thrust, state_guess, solve_calls, result,
                   get_calls, thrust_opt, state_opt, printed, guess_log>>

MethodNext ==
    \/ CallContinuousDynamics
    \/ CallDiscreteDynamics
    \/ CallStateToOrbit
    \/ CallGetPlanet
    \/ CallGravityOnPlanetSurface

\* the script's universe, before the program is built
MethodInit == Init /\ time_steps = 1

MethodSpec == MethodInit /\ [][MethodNext]_vars

\* ------------------------------------------------------------------------
\* The parking controller (9.5_control.py)
\* ------------------------------------------------------------------------

\* numbers of the controller are fixed-point, in units of 1e-4
FixOne == 10000

\* a * b on fixed-point numbers
FixMul(a, b) == Quot(a * b, FixOne)

\* np.cos and np.sin on fixed-point radians (|x| <= 1): the series up to
\* the sixth and seventh power
Cos(x) ==
    LET x2 == FixMul(x, x)
        x4 == FixMul(x2, x2)
        x6 == FixMul(x4, x2)
    IN  FixOne - Quot(x2, 2) + Quot(x4, 24) - Quot(x6, 720)
Sin(x) ==
    LET x2 == FixMul(x, x)
        x3 == FixMul(x2, x)
        x5 == FixMul(x3, x2)
        x7 == FixMul(x5, x2)
    IN  x - Quot(x3, 6) + Quot(x5, 120) - Quot(x7, 5040)

\* the tolerance 1e-3 of lyapunov_controller
Tolerance == 10

\* variant: the boundary goes to the general law
WithinTolerance_Strict(x3) == Abs(x3) < Tolerance

\* np.abs(x3) <= 1e-3
WithinTolerance(x3) == Abs(x3) <= Tolerance

\* lyapunov_controller(x1, x2, x3): the pair (u1, u2), and whether the
\* division by x3 was evaluated
lyapunov_controller(x1, x2, x3) ==
    IF WithinTolerance(x3)
    THEN [u1 |-> -FixMul(x1, Cos(x3)),
          u2 |-> x2 + 2 * x3,
          divided |-> FALSE]
    ELSE [u1 |-> -FixMul(x1, Cos(x3)),
          u2 |-> x3 + Quot(FixMul(FixMul(x2 + x3, Cos(x3)), Sin(x3)) * FixOne, x3),
          divided |-> TRUE]

\* the polar states the controller is called with: radius, angle, and the
\* angle x3 around zero, on both sides of the tolerance and far from it
X1Grid == {0, 5000, 20000}
X2Grid == {-15708, -3000, 0, 1, 7854}
X3Grid == {-10000, -5000, -11, -10, -9, -1, 0, 1, 9, 10, 11, 5000, 10000}

\* u1, u2 = lyapunov_controller(x1, x2, x3)
CallLyapunovController ==
    /\ call = NoCall
    /\ \E x1 \in X1Grid, x2 \in X2Grid, x3 \in X3Grid :
          LET r == lyapunov_controller(x1, x2, x3)
          IN  call' = [NoCall EXCEPT
                          !.method = "lyapunov_controller",
                          !.state = <<x1, x2, x3>>,
                          !.ret = <<r.u1, r.u2>>,
                          !.divided = r.divided]
    /\ UNCHANGED <<pc, time_steps, rocket, asteroids, universe, np_random,
                   prog, state, thrust, state_guess, solve_calls, result,
                   get_calls, thrust_opt, state_opt, printed, guess_log>>

\* no call of the controller has been made; the variables of the orbital
\* transfer script play no part
ControlInit == Init /\ time_steps = 1 /\ asteroids = <<>>

ControlNext == CallLyapunovController

ControlSpec == ControlInit /\ [][ControlNext]_vars

\* ------------------------------------------------------------------------
\* interpolate_rocket_state called directly, between other uses of numpy's
\* global generator
\* ------------------------------------------------------------------------

\* random numbers drawn by other code between two calls, at most
MaxDraws == 2

\* calls of interpolate_rocket_state in one behaviour, at most
MaxCalls == 2

\* the values of the global time_interval the function is called under: the
\* script's half year, and one year
TimeIntervalGrid == {time_interval, <<1, 1>>}

\* the end points the function is called with: the script's call, from the
\* position of Earth to the position of Mars, and the way back
EndPoints ==
    {<<get_planet(universe, "Earth").position,
       get_planet(universe, "Mars").position>>,
     <<get_planet(universe, "Mars").position,
       get_planet(universe, "Earth").position>>}

\* np.random.rand() called by other code: one number leaves the stream
DrawRandom ==
    /\ Len(guess_log) < MaxCalls
    /\ np_random.pos % 4 < MaxDraws
    /\ np_random' = [np_random EXCEPT !.pos = @ + 1]
    /\ UNCHANGED <<pc, time_steps, rocket, asteroids, universe, prog, state,
                   thrust, state_guess, solve_calls, result, get_calls,
                   thrust_opt, state_opt, printed, call, guess_log>>

\* state_guess = interpolate_rocket_state(p_initial, p_final, time_steps)
\* under a value of the global time_interval; the call is logged with the
\* generator it found
CallInterpolate ==
    /\ Len(guess_log) < MaxCalls
    /\ \E e \in EndPoints, T \in 1..MaxTimeSteps, ti \in TimeIntervalGrid :
          LET r == interpolate_rocket_state(e[1], e[2], T, ti, np_random)
          IN  /\ state_guess' = r.state_guess
              /\ np_random' = r.np_random
              /\ guess_log' = Append(guess_log,
                     [p_initial |-> e[1], p_final |-> e[2], time_steps |-> T,
                      time_interval |-> ti, np_random |-> np_random,
                      state_guess |-> r.state_guess])
    /\ UNCHANGED <<pc, time_steps, rocket, asteroids, universe, prog, state,
                   thrust, solve_calls, result, get_calls, thrust_opt,
                   state_opt, printed, call>>

GuessNext ==
    \/ DrawRandom
    \/ CallInterpolate

\* the script's setup without asteroids: the generator is fresh
GuessInit == Init /\ time_steps = 1 /\ asteroids = <<>>

GuessSpec == GuessInit /\ [][GuessNext]_vars

\* ------------------------------------------------------------------------
\* Properties
\* ------------------------------------------------------------------------

\* the position of the statement labelled l in the script
PcIndex(l) == CHOOSE i \in 1..Len(PcOrder) : PcOrder[i] = l

\* the statement labelled l has been executed
Executed(l) == pc = "AssertionError" \/ PcIndex(pc) > PcIndex(l)

\* indices of the constraints of the program of one kind
OfKind(kind) ==
    {i \in 1..Len(prog.constraints) : prog.constraints[i].kind = kind}

\* indices of the constraints equal to c
Copies(c) == {i \in 1..Len(prog.constraints) : prog.constraints[i] = c}

\* the rows of state and of thrust
StateRows == 0..time_steps
ThrustRows == 0..(time_steps - 1)

\* C1: once the velocity-limit statement has run, the program holds a
\* velocity-limit inequality (norm of state[t][2:] <= rocket.velocity_limit)
\* for every state row t in 0..time_steps, the last one included, that is
\* time_steps + 1 of them.
C1_VelocityLimitEveryState ==
    Executed("velocity_limits") =>
        /\ \A t \in StateRows :
              \E i \in OfKind("velocity_norm") :
                  /\ prog.constraints[i].t = t
                  /\ prog.constraints[i].rel = "<="
                  /\ prog.constraints[i].bound = rocket.velocity_limit
        /\ Cardinality(OfKind("velocity_norm")) = time_steps + 1

\* C2: whenever the solver reports success, the reported values respect
\* the three path limits at every index: |thrust[t]| <= thrust_limit for
\* t in 0..time_steps-1, |velocity of state[t]| <= velocity_limit for
\* t in 0..time_steps, and the distance from state[t] to the centre of
\* every asteroid is at least that asteroid's orbit, for t in 0..time_steps.
C2_SolutionWithinPathLimits ==
    result.is_success =>
        /\ \A t \in ThrustRows :
              NormLeq(Norm(result.x.thrust[t + 1]), rocket.thrust_limit)
        /\ \A t \in StateRows :
              NormLeq(Norm(Tail2(result.x.state[t + 1])), rocket.velocity_limit)
        /\ \A t \in StateRows : \A j \in 1..Len(asteroids) :
              NormGeq(Norm(VSub(Head2(result.x.state[t + 1]),
                                asteroids[j].position)),
                      asteroids[j].orbit)

\* a successful solve of a program with asteroids and a firing rocket
C2_Witness ==
    /\ result.is_success
    /\ Len(asteroids) > 0
    /\ \E t \in ThrustRows : result.x.thrust[t + 1] # <<0, 0>>

\* C3: after a failed solve the script stops at the assertion: no
\* GetSolution call is made, nothing is retrieved and no fuel consumption
\* is printed.
C3_FailureStopsBeforeUse ==
    (solve_calls > 0 /\ ~result.is_success) =>
        /\ pc \in {"assert", "AssertionError"}
        /\ get_calls = 0
        /\ thrust_opt = <<>>
        /\ state_opt = <<>>
        /\ printed = <<>>

\* the assertion has failed on a failed solve
C3_Witness == pc = "AssertionError" /\ solve_calls = 1 /\ ~result.is_success

\* the problem data is well formed: positive time_steps, positive rocket
\* mass and limits, positive mass of every body
WellFormed ==
    /\ time_steps > 0
    /\ rocket.mass > 0
    /\ rocket.thrust_limit > 0
    /\ rocket.velocity_limit > 0
    /\ \A i \in 1..Len(universe.planets) : universe.planets[i].mass > 0

\* C4: solver.Solve is called only on well-formed problem data; malformed
\* data stops the script during assembly.
C4_MalformedRejectedBeforeSolve == solve_calls > 0 => WellFormed

\* C5: at every stage the state sequence has time_steps + 1 rows of 4
\* components and the thrust sequence time_steps rows of 2 components:
\* the declared variables, the initial guess, the solver's values and the
\* retrieved solution.
C5_Shapes ==
    /\ Executed("declare") =>
          /\ state.rows = time_steps + 1 /\ state.cols = 4
          /\ thrust.rows = time_steps /\ thrust.cols = 2
    /\ Executed("initial_guess") =>
          /\ Len(state_guess) = time_steps + 1
          /\ \A r \in 1..Len(state_guess) : Len(state_guess[r]) = 4
          /\ Len(prog.initial_guess) = 1
          /\ prog.initial_guess[1].value = state_guess
    /\ Executed("get_thrust") /\ pc # "AssertionError" =>
          /\ Len(thrust_opt) = time_steps
          /\ \A r \in 1..Len(thrust_opt) : Len(thrust_opt[r]) = 2
    /\ Executed("get_state") /\ pc # "AssertionError" =>
          /\ Len(state_opt) = time_steps + 1
          /\ \A r \in 1..Len(state_opt) : Len(state_opt[r]) = 4

\* a run that declared, guessed and retrieved
C5_Witness == pc = "done" /\ state_opt # <<>> /\ state_guess # <<>>

\* C6: the program holds exactly 3 equalities on state[0] for 'Earth' and
\* exactly 3 on state[time_steps] for 'Mars', one per component of
\* constraint_state_to_orbit, and no other orbit constraint; the first and
\* last state of a successful solution have zero orbit residual for Earth
\* and Mars respectively.
C6_OrbitPins ==
    /\ Executed("terminal_orbit") =>
          /\ \A k \in 1..3 :
                /\ Cardinality(Copies(
                       Constraint("orbit", 0, "Earth", k, "==", 0))) = 1
                /\ Cardinality(Copies(
                       Constraint("orbit", time_steps, "Mars", k, "==", 0))) = 1
          /\ Cardinality(OfKind("orbit")) = 6
    /\ result.is_success =>
          /\ constraint_state_to_orbit(universe, result.x.state[1], "Earth")
                = <<0, 0, 0>>
          /\ constraint_state_to_orbit(universe,
                 result.x.state[time_steps + 1], "Mars") = <<0, 0, 0>>

\* a retrieved solution whose ends are distinct states
C6_Witness ==
    /\ pc = "done"
    /\ result.is_success
    /\ state_opt[1] # state_opt[time_steps + 1]

\* C7: for every t in 0..time_steps-1 the program holds exactly 4
\* equalities, the components of rocket_discrete_dynamics(state[t],
\* state[t+1], thrust[t], time_interval) = 0, 4 * time_steps in all, so a
\* successful solution satisfies the discrete dynamics on every
\* consecutive pair of states with the thrust of that step.
C7_DynamicsLinks ==
    /\ Executed("dynamics") =>
          /\ \A t \in ThrustRows : \A k \in 1..4 :
                Cardinality(Copies(
                    Constraint("dynamics", t, "", k, "==", 0))) = 1
          /\ Cardinality(OfKind("dynamics")) = 4 * time_steps
    /\ result.is_success =>
          \A t \in ThrustRows :
              rocket_discrete_dynamics(universe, result.x.state[t + 1],
                  result.x.state[t + 2], result.x.thrust[t + 1],
                  time_interval) = <<0, 0, 0, 0>>

\* a successful solve over more than one step
C7_Witness == result.is_success /\ time_steps > 1 /\ pc = "assert"

\* C8: for every t in 0..time_steps-1 the program holds exactly one
\* inequality thrust[t].thrust[t] <= thrust_limit^2 (squared norm against
\* squared limit), time_steps in all, and no other constraint on thrust
\* alone.
C8_ThrustLimits ==
    Executed("thrust_limits") =>
        /\ \A t \in ThrustRows :
              Cardinality(Copies(
                  Constraint("thrust_dot", t, "", 1, "<=",
                      rocket.thrust_limit * rocket.thrust_limit))) = 1
        /\ Cardinality(OfKind("thrust_dot")) = time_steps

\* the thrust limits are in a program about to be solved
C8_Witness == pc = "solve" /\ OfKind("thrust_dot") # {}

\* C9: for every state row t in 0..time_steps and every asteroid the
\* program holds exactly one keep-out inequality (distance of state[t] to
\* the asteroid >= asteroid.orbit): (time_steps + 1) * len(asteroids) in
\* all.
C9_KeepOut ==
    Executed("keepout") =>
        /\ \A t \in StateRows : \A j \in 1..Len(asteroids) :
              Cardinality(Copies(
                  Constraint("keepout_norm", t, asteroids[j].name, 1, ">=",
                      asteroids[j].orbit))) = 1
        /\ Cardinality(OfKind("keepout_norm"))
              = (time_steps + 1) * Len(asteroids)

\* keep-out constraints for more than one asteroid are in the program
C9_Witness == pc = "cost" /\ Len(asteroids) > 1 /\ OfKind("keepout_norm") # {}

\* every thrust sequence of time_steps rows on the grid
ThrustSequences == [1..time_steps -> ThrustGrid]

\* C10: the program's single cost is time_interval * sum over t in
\* 0..time_steps-1 of thrust[t].thrust[t]; on every thrust sequence it
\* equals fuel_consumption(thrust, time_interval), is non-negative and is
\* zero only for the all-zero sequence; the printed consumption is the
\* cost of the retrieved thrust.
C10_CostIsFuel ==
    /\ Executed("cost") =>
          /\ Len(prog.costs) = 1
          /\ Len(prog.costs[1]) = time_steps
          /\ \A t \in ThrustRows :
                Cardinality({i \in 1..Len(prog.costs[1]) :
                    prog.costs[1][i] = [coef |-> time_interval, t |-> t]}) = 1
          /\ \A th \in ThrustSequences :
                LET c == EvalCost(prog.costs[1], th)
                    f == fuel_consumption(th, time_interval)
                IN  /\ RatEq(c, f)
                    /\ f[1] >= 0 /\ f[2] > 0
                    /\ (f[1] = 0) <=> (\A t \in 1..time_steps : th[t] = <<0, 0>>)
    /\ pc = "done" =>
          /\ Len(printed) = 1
          /\ RatEq(printed[1], EvalCost(prog.costs[1], thrust_opt))

\* a consumption was printed for a firing rocket
C10_Witness == pc = "done" /\ Len(printed) = 1 /\ printed[1][1] > 0

\* gravity at the state, summed over the list of planets directly, each
\* entry of the list once
GravityField(U, s) ==
    LET p(i) == VSub(Head2(s), U.planets[i].position)
        d(i) == ISqrt(Dot(p(i), p(i)))
        RECURSIVE Sum(_)
        Sum(i) == IF i = 0 THEN <<0, 0>>
                  ELSE VAdd(Sum(i - 1),
                            VScale(Quot(-(U.G * U.planets[i].mass),
                                        d(i) * d(i) * d(i)), p(i)))
    IN  Sum(Len(U.planets))

\* C11: rocket_discrete_dynamics returns state_next - state - time_step *
\* f(state_next, thrust) with f evaluated at the next state (here multiplied
\* by the denominator of time_step); its position components are
\* p_next - p - time_step * v_next
C11_ImplicitEuler ==
    call.method = "rocket_discrete_dynamics" =>
        LET n == call.time_step[1]
            d == call.time_step[2]
            f == rocket_continuous_dynamics(call.U, call.state_next, call.thrust)
        IN  /\ call.ret = [c \in 1..4 |->
                  d * (call.state_next[c] - call.state[c]) - n * f[c]]
            /\ Head2(call.ret) =
                  VSub(VScale(d, VSub(Head2(call.state_next), Head2(call.state))),
                       VScale(n, Tail2(call.state_next)))

\* the discrete dynamics was called with two states of different velocity
\* and a time step that is not one
C11_Witness ==
    /\ call.method = "rocket_discrete_dynamics"
    /\ Tail2(call.state) # Tail2(call.state_next)
    /\ Head2(call.state) # Head2(call.state_next)
    /\ call.time_step = time_interval
    /\ Len(call.U.planets) > 2

\* C12: rocket_continuous_dynamics returns the velocity followed by
\* thrust / rocket.mass plus the gravity of every planet of the universe,
\* each counted once, and leaves state, thrust and the bodies as they were
C12_ContinuousDynamics ==
    call.method = "rocket_continuous_dynamics" =>
        /\ Len(call.ret) = 4
        /\ Head2(call.ret) = Tail2(call.state)
        /\ Tail2(call.ret) =
              VAdd(<<Quot(call.thrust[1], call.U.rocket.mass),
                     Quot(call.thrust[2], call.U.rocket.mass)>>,
                   GravityField(call.U, call.state))
        /\ call.state_after = call.state
        /\ call.thrust_after = call.thrust
        /\ universe = call.U

\* the continuous dynamics was called with a thrust on a universe with
\* asteroids, the last of which pulls on the rocket
C12_Witness ==
    /\ call.method = "rocket_continuous_dynamics"
    /\ call.thrust # <<0, 0>>
    /\ Len(call.U.planets) > 2
    /\ acceleration_from_planet(call.U, call.state,
          call.U.planets[Len(call.U.planets)].name) # <<0, 0>>

\* the state is on the circular orbit of the planet: at distance orbit, the
\* velocity perpendicular to the radius, the squared speed G * mass / orbit
OnCircularOrbit(U, s, name) ==
    LET planet == get_planet(U, name)
        p == VSub(Head2(s), planet.position)
        v == Tail2(s)
    IN  /\ Dot(p, p) = planet.orbit * planet.orbit
        /\ Dot(p, v) = 0
        /\ Dot(v, v) * planet.orbit = U.G * planet.mass

\* C13: for a state on the circular orbit of a body,
\* constraint_state_to_orbit returns the zero vector
C13_OrbitResidualZero ==
    (/\ call.method = "constraint_state_to_orbit"
     /\ OnCircularOrbit(call.U, call.state, call.name))
        => call.ret = <<0, 0, 0>>

\* the residual was computed for a state on the circular orbit of Earth
C13_Witness ==
    /\ call.method = "constraint_state_to_orbit"
    /\ call.name = "Earth"
    /\ OnCircularOrbit(call.U, call.state, call.name)
    /\ Tail2(call.state) # <<0, 0>>

\* the position of row r of the array g is the point q
AtPoint(g, r, q) == RatEq(g[r][1], <<q[1], 1>>) /\ RatEq(g[r][2], <<q[2], 1>>)

\* C14: every sample of the initial guess of the Earth-to-Mars call lies off
\* the centre of every body of the universe; in particular the first sample
\* is not at Earth's position and the last not at Mars's
C14_GuessOffCentres ==
    Executed("initial_guess") =>
        /\ \A r \in 1..Len(state_guess) : \A i \in 1..Len(universe.planets) :
              ~AtPoint(state_guess, r, universe.planets[i].position)
        /\ ~AtPoint(state_guess, 1, get_planet(universe, "Earth").position)
        /\ ~AtPoint(state_guess, Len(state_guess),
                    get_planet(universe, "Mars").position)

\* the guess of a run with asteroids has been computed and handed to the
\* program
C14_Witness ==
    /\ pc = "thrust_limits"
    /\ Len(state_guess) = time_steps + 1
    /\ Len(universe.planets) > 2
    /\ Len(prog.initial_guess) > 0

\* the arrays g and h hold the same numbers
SameArray(g, h) ==
    /\ Len(g) = Len(h)
    /\ \A r \in 1..Len(g) : \A c \in 1..4 : RatEq(g[r][c], h[r][c])

\* two logged calls received the same arguments
SameArguments(a, b) ==
    /\ a.p_initial = b.p_initial
    /\ a.p_final = b.p_final
    /\ a.time_steps = b.time_steps

\* C15: two calls of interpolate_rocket_state with the same (p_initial,
\* p_final, time_steps) return the same state guess, whatever the generator
\* had delivered before each call
C15_GuessDeterministic ==
    \A i \in 1..Len(guess_log) : \A j \in 1..Len(guess_log) :
        SameArguments(guess_log[i], guess_log[j]) =>
            SameArray(guess_log[i].state_guess, guess_log[j].state_guess)

\* two calls with the same arguments found the generator in different states
C15_Witness ==
    /\ Len(guess_log) = 2
    /\ SameArguments(guess_log[1], guess_log[2])
    /\ guess_log[1].np_random # guess_log[2].np_random
    /\ guess_log[2].np_random.pos % 4 # 0

\* the rational d lies in [0, 1/1000)
IsSmallNoise(d) == d[1] >= 0 /\ d[1] <= (d[2] - 1) \div 1000

\* C16: for every sample index k in 0..time_steps the position part of the
\* guess is p_initial + (k / time_steps) * (p_final - p_initial) plus a
\* perturbation in [0, 1e-3) per component, and calls that differ only in
\* time_interval return the same guess
C16_LinearInterpolation ==
    /\ \A i \in 1..Len(guess_log) :
          LET a == guess_log[i]
          IN  /\ Len(a.state_guess) = a.time_steps + 1
              /\ \A k \in 0..a.time_steps : \A c \in 1..2 :
                    LET line == <<a.p_initial[c] * a.time_steps
                                     + k * (a.p_final[c] - a.p_initial[c]),
                                  a.time_steps>>
                    IN  IsSmallNoise(RatSub(a.state_guess[k + 1][c], line))
    /\ \A i \in 1..Len(guess_log) : \A j \in 1..Len(guess_log) :
          (/\ SameArguments(guess_log[i], guess_log[j])
           /\ guess_log[i].time_interval # guess_log[j].time_interval)
              => SameArray(guess_log[i].state_guess, guess_log[j].state_guess)

\* two calls on a grid of more than two samples that differ only in
\* time_interval
C16_Witness ==
    /\ Len(guess_log) = 2
    /\ SameArguments(guess_log[1], guess_log[2])
    /\ guess_log[1].time_steps > 1
    /\ guess_log[1].time_interval # guess_log[2].time_interval

\* C17: in the state guess the velocity components (third and fourth
\* entries) are zero at every sample index
C17_GuessVelocityZero ==
    Executed("initial_guess") =>
        \A r \in 1..Len(state_guess) :
            RatEq(state_guess[r][3], RatZero) /\ RatEq(state_guess[r][4], RatZero)

\* C18: an initial guess is set for the state variables only, never for a
\* thrust variable, at any point up to and after the solver call
C18_GuessOnlyForState ==
    /\ \A i \in 1..Len(prog.initial_guess) :
          /\ prog.initial_guess[i].var = "state"
          /\ prog.initial_guess[i].var # thrust.name
    /\ solve_calls > 0 => Len(prog.initial_guess) = 1

\* the solver has been called on a program that holds the guess for state
C18_Witness ==
    /\ solve_calls = 1
    /\ Len(prog.initial_guess) = 1
    /\ thrust.name = "thrust"
    /\ thrust.rows > 0

\* the script has come to its end, normally or by the failed assertion
Ended == pc \in {"done", "AssertionError"}

\* C19: in one run the solver is invoked exactly once: at most once at any
\* time, and once when the run has ended, after a success as after a failure
C19_SolveOnce ==
    /\ solve_calls <= 1
    /\ Executed("solve") => solve_calls = 1
    /\ Ended => solve_calls = 1

\* a run has ended after its one call of the solver
C19_Witness == Ended /\ solve_calls = 1 /\ get_calls \in {0, 2}

\* the program is complete: every constraint loop, the cost and the guess
\* have been added
Assembled ==
    /\ Len(prog.decision_variables) = 2
    /\ Cardinality(OfKind("orbit")) = 6
    /\ Cardinality(OfKind("dynamics")) = 4 * time_steps
    /\ OfKind("thrust_dot") # {}
    /\ OfKind("velocity_norm") # {}
    /\ Len(asteroids) > 0 => OfKind("keepout_norm") # {}
    /\ Len(prog.costs) = 1
    /\ Len(prog.initial_guess) = 1

\* C20: the variables are declared before any constraint or cost, every
\* constraint, the cost and the initial guess are in the program when
\* solver.Solve is called, and the program is not changed after that call
C20_LifeCycle ==
    /\ []((Len(prog.constraints) > 0 \/ Len(prog.costs) > 0)
             => (state # NoArray /\ thrust # NoArray))
    /\ [](solve_calls > 0 => Assembled)
    /\ [][solve_calls > 0 => prog' = prog]_vars

\* a run with asteroids has ended normally on the assembled program
C20_Witness ==
    /\ pc = "done"
    /\ Assembled
    /\ Len(asteroids) > 0
    /\ printed # <<>>

\* C21: every body registered in the universe, Earth, Mars and each
\* generated asteroid, has a strictly positive mass
C21_PositiveMasses ==
    \A i \in 1..Len(universe.planets) : universe.planets[i].mass > 0

\* the bodies and the vehicle: the Rocket, the list asteroids and the
\* Universe with its list of planets
Bodies == <<rocket, asteroids, universe>>

\* C22: no step of problem assembly, solving or result extraction, and no
\* Universe method those steps call, changes an attribute of a Planet or of
\* the Rocket, or the contents or order of universe.planets
C22_BodiesNeverMutated == [][Bodies' = Bodies]_vars

\* a run with asteroids has gone through assembly, solving and extraction
\* and the universe is still the one that was constructed
C22_Witness ==
    /\ pc = "done"
    /\ get_calls = 2
    /\ Len(asteroids) > 0
    /\ universe = Universe(rocket0, <<earth, mars>> \o asteroids)

\* a retrieval step changes neither the result nor the program, and a
\* repeated read returns what the first read returned
RetrievalIsPure ==
    /\ (pc \in {"get_thrust", "get_state", "print_fuel"})
          => (result' = result /\ prog' = prog)
    /\ (pc = "get_thrust" /\ get_calls >= 2) => (thrust_opt' = thrust_opt)
    /\ (pc = "get_state" /\ get_calls >= 2) => (state_opt' = state_opt)

IsPrefix(a, b) == Len(a) <= Len(b) /\ \A i \in 1..Len(a) : a[i] = b[i]

\* the kinds of constraint the path-constraint cell adds
PathKinds == {"thrust_dot", "velocity_norm", "keepout_norm"}

\* the program P holds what the initialisation cell puts into it and no more
FreshProgram(P) ==
    /\ Len(P.constraints) = 6 + 4 * time_steps
    /\ \A i \in 1..Len(P.constraints) :
          P.constraints[i].kind \in {"orbit", "dynamics"}
    /\ Cardinality({i \in 1..Len(P.constraints) :
                       P.constraints[i].kind = "orbit"}) = 6
    /\ P.costs = <<>>
    /\ Len(P.initial_guess) = 1
    /\ P.initial_guess[1].var = "state"

\* one statement of the notebook: nothing leaves the program except when
\* the initialisation cell starts over, and the initialisation cell ends on
\* a fresh program
CellStep ==
    /\ (pc # "new_prog") =>
          /\ IsPrefix(prog.constraints, prog'.constraints)
          /\ IsPrefix(prog.costs, prog'.costs)
    /\ (pc = "thrust_limits") =>
          \A i \in OfKind("thrust_dot") :
              Cardinality(Copies(prog.constraints[i]))' =
                  Cardinality(Copies(prog.constraints[i])) + 1
    /\ (pc = "initial_guess") => FreshProgram(prog')

\* C24: after k runs of the path-constraint/cost cell on one program the
\* program holds k copies of every thrust, velocity and keep-out constraint
\* and k cost terms, and nothing is ever removed; a run of the
\* initialisation cell leaves a fresh program with the 6 orbit equalities,
\* the 4 * time_steps dynamics equalities and the guess for state only
C24_CellReruns ==
    /\ [](pc = "solve" =>
            /\ Len(prog.costs) >= 1
            /\ \A i \in 1..Len(prog.constraints) :
                  prog.constraints[i].kind \in PathKinds =>
                      Cardinality(Copies(prog.constraints[i])) = Len(prog.costs)
            /\ Cardinality(OfKind("thrust_dot")) = Len(prog.costs) * time_steps
            /\ Cardinality(OfKind("keepout_norm")) =
                  Len(prog.costs) * (time_steps + 1) * Len(asteroids)
            /\ OfKind("velocity_norm") # {}
            /\ Cardinality(OfKind("orbit")) = 6
            /\ Cardinality(OfKind("dynamics")) = 4 * time_steps)
    /\ [][CellStep]_vars

\* the path-constraint/cost cell has run twice on one program with asteroids
C24_Witness ==
    /\ pc = "solve"
    /\ Len(prog.costs) = 2
    /\ Len(asteroids) > 0
    /\ Cardinality(OfKind("keepout_norm")) = 2 * (time_steps + 1) * Len(asteroids)

\* C25: lyapunov_controller divides by x3 exactly when |x3| > 1e-3; for
\* |x3| <= 1e-3, the boundary included, it returns u2 = x2 + 2 * x3, the
\* general law with cos(x3) * sin(x3) / x3 replaced by 1; u1 is
\* -x1 * cos(x3) in both branches
C25_NoDivisionNearZero ==
    call.method = "lyapunov_controller" =>
        LET x1 == call.state[1]
            x2 == call.state[2]
            x3 == call.state[3]
        IN  /\ call.divided <=> (Abs(x3) > Tolerance)
            /\ Abs(x3) <= Tolerance =>
                  /\ call.ret[2] = x2 + 2 * x3
                  /\ call.ret[2] = x3 + FixMul(x2 + x3, FixOne)
            /\ call.ret[1] = -FixMul(x1, Cos(x3))

\* the controller was called on the boundary of the tolerance with a
\* nonzero angle and radius
C25_Witness ==
    /\ call.method = "lyapunov_controller"
    /\ Abs(call.state[3]) = Tolerance
    /\ call.state[1] # 0
    /\ call.state[2] # 0

\* the universe U with the planet of the given name as its only body
OnlyPlanet(U, name) == [U EXCEPT !.planets = <<get_planet(U, name)>>]

\* C26: the radial-acceleration component of constraint_state_to_orbit is
\* p.a + v.v with a the gravity of the named planet alone, that is
\* v.v - G * mass / |p|; the other bodies and the thrust play no part in the
\* residual, which is the one of a universe holding the named planet only
C26_OrbitResidualNamedPlanetOnly ==
    call.method = "constraint_state_to_orbit" =>
        LET planet == call.U.planets[
                CHOOSE i \in 1..Len(call.U.planets) :
                    call.U.planets[i].name = call.name]
            p == VSub(Head2(call.state), planet.position)
            v == Tail2(call.state)
            d == ISqrt(Dot(p, p))
            a == VScale(Quot(-(call.U.G * planet.mass), d * d * d), p)
        IN  /\ call.ret[3] = Dot(p, a) + Dot(v, v)
            /\ call.ret = constraint_state_to_orbit(
                              OnlyPlanet(call.U, call.name), call.state, call.name)
            /\ (d * d = Dot(p, p) /\ Abs(call.U.G * planet.mass) % (d * d * d) = 0)
                  => call.ret[3] = Dot(v, v) - Quot(call.U.G * planet.mass, d)

\* a state with zero orbit residual for a planet, in a universe with
\* asteroids where the pull of all bodies differs from the planet's own
C26_Witness ==
    /\ call.method = "constraint_state_to_orbit"
    /\ call.ret = <<0, 0, 0>>
    /\ Len(call.U.planets) > 2
    /\ Tail2(rocket_continuous_dynamics(call.U, call.state, <<0, 0>>))
          # acceleration_from_planet(call.U, call.state, call.name)

\* the message get_planet prints for a name that is in no planet
NotInUniverse(name) == <<[name |-> name, text |-> " is not in the Universe!"]>>

\* C27: the names of the bodies of the universe are pairwise distinct and
\* get_planet(P.name) returns P for every planet P; for a name no planet
\* carries get_planet reports that the name is not in the universe and
\* returns None, and gravity_on_planet_surface then returns without printing
\* or computing anything more
C27_NameLookup ==
    /\ \A i \in 1..Len(universe.planets) : \A j \in 1..Len(universe.planets) :
          universe.planets[i].name = universe.planets[j].name => i = j
    /\ \A i \in 1..Len(universe.planets) :
          get_planet(universe, universe.planets[i].name) = universe.planets[i]
    /\ call.method = "get_planet" =>
          IF \E i \in 1..Len(call.U.planets) : call.U.planets[i].name = call.name
          THEN /\ \E i \in 1..Len(call.U.planets) : call.ret = <<call.U.planets[i]>>
               /\ call.ret[1].name = call.name
               /\ call.printed = <<>>
          ELSE /\ call.ret = <<None>>
               /\ call.printed = NotInUniverse(call.name)
    /\ (/\ call.method = "gravity_on_planet_surface"
        /\ \A i \in 1..Len(call.U.planets) : call.U.planets[i].name # call.name)
          => (call.ret = <<>> /\ call.printed = NotInUniverse(call.name))

\* the gravity on the surface of Jupiter was asked for in a universe with
\* two asteroids
C27_Witness ==
    /\ call.method = "gravity_on_planet_surface"
    /\ call.name = "Jupiter"
    /\ Len(call.U.planets) = 4


====
